---- MODULE Spec2Model ----
(***************************************************************************)
(* Model of src/main.py: the bootstrap of the "Backend API" FastAPI        *)
(* application, run as the entry script (python main.py).                  *)
(*                                                                         *)
(* The module body of main.py runs top to bottom: router registration      *)
(* (lines 44-61), the inline routes (63-84), then the __main__ block       *)
(* (86-92) which reads PORT, logs the address and calls uvicorn.run.       *)
(* uvicorn then drives the lifespan generator (18-31) and dispatches       *)
(* requests to the registered routes in registration order.                *)
(***************************************************************************)
EXTENDS Integers, Sequences, FiniteSets, TLC

\* ------------------------------------------------------------------ bounds
\* longest PORT value tried
MaxPortLen == 4
\* requests handled in one run
MaxRequests == 2

\* ------------------------------------------------------- program constants
\* os.getenv("PORT", 8000)
DefaultPort == 8000

\* characters a PORT value is made of: two digits, a sign, a non-digit
PortChars == {"9", "0", "-", "x"}

PortStrings == UNION {[1..n -> PortChars] : n \in 0..MaxPortLen}

\* os.environ as far as main.py reads it: PORT absent, or PORT = value
Environments ==
    {[present |-> FALSE, value |-> <<>>]}
        \cup {[present |-> TRUE, value |-> s] : s \in PortStrings}

\* ------------------------------------------------------------ int(), str()
Digits == {"0", "9"}

DigitValue(c) == IF c = "9" THEN 9 ELSE 0

RECURSIVE AllDigits(_)
AllDigits(s) ==
    IF s = <<>> THEN TRUE
    ELSE Head(s) \in Digits /\ AllDigits(Tail(s))

\* left-to-right accumulation of a digit string, as int() reads it
RECURSIVE Accumulate(_, _)
Accumulate(acc, s) ==
    IF s = <<>> THEN acc
    ELSE Accumulate(acc * 10 + DigitValue(Head(s)), Tail(s))

\* int(str): an optional sign, then one or more decimal digits; anything
\* else raises ValueError (ok = FALSE)
ParseInt(s) ==
    LET signed == s # <<>> /\ Head(s) = "-"
        body   == IF signed THEN Tail(s) ELSE s
    IN  IF body # <<>> /\ AllDigits(body)
        THEN [ok |-> TRUE,
              val |-> IF signed THEN 0 - Accumulate(0, body)
                      ELSE Accumulate(0, body)]
        ELSE [ok |-> FALSE, val |-> 0]

\* GetPort as it would be with the default also taken for a rejected value
GetPort_DefaultOnInvalid(env) ==
    IF env.present /\ ParseInt(env.value).ok THEN ParseInt(env.value)
    ELSE [ok |-> TRUE, val |-> DefaultPort]

\* os.getenv("PORT", 8000) followed by int(...): the default is already an int
GetPort(env) ==
    IF env.present THEN ParseInt(env.value)
    ELSE [ok |-> TRUE, val |-> DefaultPort]

DigitChar(d) == IF d = 9 THEN "9" ELSE IF d = 8 THEN "8" ELSE IF d = 7 THEN "7"
    ELSE IF d = 6 THEN "6" ELSE IF d = 5 THEN "5" ELSE IF d = 4 THEN "4"
    ELSE IF d = 3 THEN "3" ELSE IF d = 2 THEN "2" ELSE IF d = 1 THEN "1" ELSE "0"

RECURSIVE FormatNat(_)
FormatNat(n) ==
    IF n < 10 THEN <<DigitChar(n)>>
    ELSE Append(FormatNat(n \div 10), DigitChar(n % 10))

\* f"{port}": the decimal text of an int
FormatInt(n) == IF n < 0 THEN <<"-">> \o FormatNat(0 - n) ELSE FormatNat(n)

\* ------------------------------------------------------------- log lines
\* one print(...) call: the literal text, the interpolated text after it
LogLine(text, arg) == [t |-> text, a |-> arg]

StartingLine == LogLine("Starting Backend API...", <<>>)
CancelLine   == LogLine("Application shutdown requested", <<>>)
ShutdownLine == LogLine("Shutting down Backend API...", <<>>)
AddressLine(p) == LogLine("Starting server on 0.0.0.0:", FormatInt(p))
ImportErrorLine(err) == LogLine("Error importing TestController: ", <<err.msg>>)
TracebackLine(trace) == LogLine("Traceback: ", trace)

\* ------------------------------------------- errors of the router load
\* what "from Controllers.TestController import router" (line 46) or
\* app.include_router(test_router) (line 47) can raise
LoadErrors ==
    { [cls |-> "ModuleNotFoundError", msg |-> "No module named 'Controllers'",
       line |-> "main.py:46"],
      [cls |-> "ImportError", msg |-> "cannot import name 'router'",
       line |-> "main.py:46"],
      [cls |-> "AttributeError", msg |-> "object has no attribute 'routes'",
       line |-> "main.py:47"] }

NoError == [cls |-> "None", msg |-> "", line |-> ""]

\* traceback.format_exc(): the trace of the exception being handled at the
\* time of the call, or "NoneType: None" when none is being handled
format_exc(handling) ==
    IF handling = NoError THEN <<"NoneType: None">>
    ELSE <<"Traceback (most recent call last):", handling.line,
           handling.cls, handling.msg>>

\* ------------------------------------------------------------ the routes
\* GET paths a client asks for
Paths == {"/", "/health", "/swagger", "/api/test/"}

\* paths the GET routes of Controllers.TestController's router may have; the
\* module is not part of main.py, and line 47 mounts it with no prefix of
\* its own, so the router decides its paths
ExternalPaths == {"/api/test/", "/", "/health"}

ExternalRouters == SUBSET ExternalPaths

Route(path, endpoint) == [path |-> path, endpoint |-> endpoint]

RECURSIVE RoutesOf(_, _)
\* router.routes of a router whose routes all lead to `endpoint`
RoutesOf(paths, endpoint) ==
    IF paths = {} THEN <<>>
    ELSE LET p == CHOOSE q \in paths : TRUE
         IN  <<Route(p, endpoint)>> \o RoutesOf(paths \ {p}, endpoint)

\* the value of a module-level name that is not bound
Unbound == [cls |-> "<unbound>", msg |-> "", line |-> ""]

Response(status, body) == [status |-> status, body |-> body]

\* a handler that raised: the server error middleware answers 500
ServerError(cls) == Response(500, [raised |-> cls])

\* ------------------------------------------------------------------ state
VARIABLES
    pc,        \* position in the module body of main.py
    environ,   \* the PORT entry of the process environment
    global_e,  \* the module-level name e (bound by "except Exception as e")
    mounted,   \* the routers handed to app.include_router, in order
    raisedAtLoad, \* history: what the try body (46-47) raised, if anything
    uncaught,  \* the exception that ended the process, if any
    routes,    \* app.router.routes, in registration order
    log,       \* what print() wrote to process output
    port,      \* the local port of the __main__ block
    host,      \* uvicorn.run: what the server is doing
    ls,        \* position of the lifespan generator
    pending,   \* the exception thrown into the lifespan generator
    lsResult,  \* how the lifespan context manager was left
    handled,   \* number of requests answered
    thrown,    \* what the server threw into the generator at its yield
    lastReq    \* the last request and its response

vars == <<pc, environ, global_e, mounted, raisedAtLoad, uncaught, routes, log,
          port, host, ls, pending, lsResult, handled, thrown, lastReq>>

NoRequest == [path |-> "", resp |-> Response(0, [none |-> ""])]

Init ==
    /\ pc = "register"
    /\ environ \in Environments
    /\ global_e = Unbound
    /\ mounted = <<>>
    /\ raisedAtLoad = NoError
    /\ uncaught = "None"
    /\ routes = <<>>
    /\ log = <<>>
    /\ port = 0
    /\ host = "none"
    /\ ls = "created"
    /\ pending = "None"
    /\ lsResult = "none"
    /\ handled = 0
    /\ thrown = "None"
    /\ lastReq = NoRequest

\* ------------------------------------------------------- the endpoints
root ==
    Response(200, [message |-> "Backend API is running", status |-> "ok",
                   swagger |-> "/docs", api |-> "/api/test"])

swagger_redirect == Response(307, [location |-> "/docs"])

health ==
    Response(200, [status |-> "healthy", service |-> "Backend API"])

\* error_endpoint reads the module-level e and calls format_exc() when the
\* request is handled; no exception is being handled at that time. The dict
\* display is evaluated left to right, so reading an unbound e raises
\* NameError before format_exc() is reached.
error_endpoint ==
    IF global_e = Unbound THEN ServerError("NameError")
    ELSE Response(200, [error |-> "Failed to load TestController",
                        details |-> global_e.msg,
                        traceback |-> format_exc(NoError)])

\* a route of the TestController router: its answer is its own business
external_endpoint == Response(200, [router |-> "TestController"])

Call(endpoint) ==
    CASE endpoint = "root" -> root
      [] endpoint = "health" -> health
      [] endpoint = "swagger_redirect" -> swagger_redirect
      [] endpoint = "error_endpoint" -> error_endpoint
      [] OTHER -> external_endpoint

\* the router answers with the first registered route that matches
Dispatch(path) ==
    LET hits == {i \in 1..Len(routes) : routes[i].path = path}
    IN  IF hits = {} THEN Response(404, [detail |-> "Not Found"])
        ELSE Call(routes[CHOOSE i \in hits : \A j \in hits : i <= j].endpoint)

\* ------------------------------------------- router registration (44-61)
\* the end of an "except ... as e" clause: Python runs "e = None; del e", so
\* the name bound to the caught error is unbound afterwards
AfterExceptClause(bound) == Unbound

\* Caught as it would be with "except ImportError"
Caught_ImportErrorOnly(err) ==
    err.cls \in {"ModuleNotFoundError", "ImportError"}

\* "except Exception": every class LoadErrors raises derives from Exception
Caught(err) ==
    err.cls \in {"ModuleNotFoundError", "ImportError", "AttributeError"}

\* lines 46-47 succeed: the router of TestController is mounted
RegisterLoaded ==
    /\ pc = "register"
    /\ \E paths \in ExternalRouters :
           routes' = routes \o RoutesOf(paths, "external")
    /\ mounted' = Append(mounted, "TestController")
    /\ pc' = "inline"
    /\ UNCHANGED <<environ, global_e, raisedAtLoad, uncaught, log, port, host,
                   ls, pending, lsResult, handled, thrown, lastReq>>

\* line 46 or 47 raises err. The except branch (48-61) prints the message and
\* the trace of the exception being handled, builds the fallback router with
\* its one route and mounts it; leaving the branch unbinds e.
RegisterFailed ==
    /\ pc = "register"
    /\ \E err \in LoadErrors :
           /\ raisedAtLoad' = err
           /\ IF Caught(err)
              THEN
                /\ log' = log \o <<ImportErrorLine(err),
                                   TracebackLine(format_exc(err))>>
                /\ routes' = routes
                       \o RoutesOf({"/api/test/"}, "error_endpoint")
                /\ mounted' = Append(mounted, "fallback")
                /\ global_e' = AfterExceptClause(err)
                /\ pc' = "inline"
                /\ UNCHANGED uncaught
              ELSE
                /\ pc' = "aborted"
                /\ uncaught' = err.cls
                /\ UNCHANGED <<log, routes, mounted, global_e>>
    /\ UNCHANGED <<environ, port, host, ls, pending, lsResult, handled,
                   thrown, lastReq>>

\* ------------------------------------------------ inline routes (63-84)
\* DefineInlineRoutes as it would be with the /health route left out
DefineInlineRoutes_NoHealth ==
    /\ pc = "inline"
    /\ routes' = routes \o <<Route("/", "root"),
                             Route("/swagger", "swagger_redirect")>>
    /\ pc' = "main_port"
    /\ UNCHANGED <<environ, global_e, mounted, raisedAtLoad, uncaught, log,
                   port, host, ls, pending, lsResult, handled, thrown,
                   lastReq>>

DefineInlineRoutes ==
    /\ pc = "inline"
    /\ routes' = routes \o <<Route("/", "root"),
                             Route("/swagger", "swagger_redirect"),
                             Route("/health", "health")>>
    /\ pc' = "main_port"
    /\ UNCHANGED <<environ, global_e, mounted, raisedAtLoad, uncaught, log, port, host, ls, pending,
                   lsResult, handled, thrown, lastReq>>

\* -------------------------------------------------- __main__ block (86-92)
\* line 89: a PORT that int() rejects raises ValueError, which nothing
\* catches: the process ends before line 90
MainReadPort ==
    /\ pc = "main_port"
    /\ LET got == GetPort(environ)
       IN  IF got.ok
           THEN port' = got.val /\ pc' = "main_log" /\ UNCHANGED uncaught
           ELSE port' = port /\ pc' = "aborted" /\ uncaught' = "ValueError"
    /\ UNCHANGED <<environ, global_e, mounted, raisedAtLoad, routes, log, host, ls,
                   pending, lsResult, handled, thrown, lastReq>>

\* MainLogAddress as it would be with the print placed after uvicorn.run
MainLogAddress_NoPrint ==
    /\ pc = "main_log"
    /\ pc' = "main_run"
    /\ UNCHANGED <<environ, global_e, mounted, raisedAtLoad, uncaught, routes,
                   log, port, host, ls, pending, lsResult, handled, thrown,
                   lastReq>>

\* line 90
MainLogAddress ==
    /\ pc = "main_log"
    /\ log' = Append(log, AddressLine(port))
    /\ pc' = "main_run"
    /\ UNCHANGED <<environ, global_e, mounted, raisedAtLoad, uncaught, routes, port, host, ls,
                   pending, lsResult, handled, thrown, lastReq>>

\* line 92: uvicorn.run(app, ..., lifespan="on") takes over; the server runs
\* the lifespan startup before it serves
MainRun ==
    /\ pc = "main_run"
    /\ pc' = "serving"
    /\ host' = "startup"
    /\ UNCHANGED <<environ, global_e, mounted, raisedAtLoad, uncaught, routes, log, port, ls,
                   pending, lsResult, handled, thrown, lastReq>>

\* ------------------------------------------------------ lifespan (18-31)
\* exceptions the server may throw into the generator while it is suspended
Thrown == {"CancelledError", "RuntimeError"}

\* lines 22-24: the server enters the context manager; the generator prints
\* and suspends at yield, and the server starts serving
LifespanStartup ==
    /\ host = "startup"
    /\ ls = "created"
    /\ log' = Append(log, StartingLine)
    /\ ls' = "suspended"
    /\ host' = "serving"
    /\ UNCHANGED <<pc, environ, global_e, mounted, raisedAtLoad, uncaught, routes, port, pending,
                   lsResult, handled, thrown, lastReq>>

\* a GET handled while the application is serving; the three handlers of
\* main.py have no await, so each runs to its return in one step
HandleRequest ==
    /\ host = "serving"
    /\ ls = "suspended"
    /\ handled < MaxRequests
    /\ \E path \in Paths :
           lastReq' = [path |-> path, resp |-> Dispatch(path)]
    /\ handled' = handled + 1
    /\ UNCHANGED <<pc, environ, global_e, mounted, raisedAtLoad, uncaught, routes, log, port, host,
                   ls, pending, lsResult, thrown>>

\* a termination signal: the server stops serving and begins its shutdown
TerminationSignal ==
    /\ host = "serving"
    /\ host' = "stopping"
    /\ UNCHANGED <<pc, environ, global_e, mounted, raisedAtLoad, uncaught, routes, log, port, ls,
                   pending, lsResult, handled, thrown, lastReq>>

\* the server leaves the context manager normally: the generator resumes
\* after yield (line 24) and falls through to finally
LifespanResume ==
    /\ host = "stopping"
    /\ ls = "suspended"
    /\ ls' = "finally"
    /\ UNCHANGED <<pc, environ, global_e, mounted, raisedAtLoad, uncaught, routes, log, port, host,
                   pending, lsResult, handled, thrown, lastReq>>

\* LifespanThrow as it would be with "except Exception" and no finally: an
\* exception other than CancelledError leaves the generator at once
LifespanThrow_NoFinally ==
    /\ host \in {"serving", "stopping"}
    /\ ls = "suspended"
    /\ \E exc \in Thrown :
           /\ thrown' = exc
           /\ pending' = exc
           /\ ls' = IF exc = "CancelledError" THEN "except" ELSE "closed"
           /\ lsResult' = IF exc = "CancelledError" THEN lsResult ELSE exc
    /\ host' = "stopping"
    /\ UNCHANGED <<pc, environ, global_e, mounted, raisedAtLoad, uncaught,
                   routes, log, port, handled, lastReq>>

\* LifespanThrow as it would be with "except BaseException" at line 25
LifespanThrow_CatchAll ==
    /\ host \in {"serving", "stopping"}
    /\ ls = "suspended"
    /\ \E exc \in Thrown :
           /\ thrown' = exc
           /\ pending' = exc
           /\ ls' = "except"
    /\ host' = "stopping"
    /\ UNCHANGED <<pc, environ, global_e, mounted, raisedAtLoad, uncaught,
                   routes, log, port, lsResult, handled, lastReq>>

\* the server leaves the context manager with an exception: it is raised at
\* the yield; "except asyncio.CancelledError" (line 25) takes CancelledError,
\* anything else goes to finally
LifespanThrow ==
    /\ host \in {"serving", "stopping"}
    /\ ls = "suspended"
    /\ \E exc \in Thrown :
           /\ thrown' = exc
           /\ pending' = exc
           /\ ls' = IF exc = "CancelledError" THEN "except" ELSE "finally"
    /\ host' = "stopping"
    /\ UNCHANGED <<pc, environ, global_e, mounted, raisedAtLoad, uncaught, routes, log, port,
                   lsResult, handled, lastReq>>

\* LifespanExcept as it would be without the raise of line 28
LifespanExcept_Swallow ==
    /\ ls = "except"
    /\ log' = Append(log, CancelLine)
    /\ pending' = "None"
    /\ ls' = "finally"
    /\ UNCHANGED <<pc, environ, global_e, mounted, raisedAtLoad, uncaught,
                   routes, port, host, lsResult, handled, thrown, lastReq>>

\* lines 27-28: print, then a bare raise keeps the exception pending
LifespanExcept ==
    /\ ls = "except"
    /\ log' = Append(log, CancelLine)
    /\ ls' = "finally"
    /\ UNCHANGED <<pc, environ, global_e, mounted, raisedAtLoad, uncaught, routes, port, host,
                   pending, lsResult, handled, thrown, lastReq>>

\* line 31: print; the generator then ends, returning when nothing is
\* pending and raising the pending exception otherwise
LifespanFinally ==
    /\ ls = "finally"
    /\ log' = Append(log, ShutdownLine)
    /\ ls' = "closed"
    /\ lsResult' = IF pending = "None" THEN "returned" ELSE pending
    /\ UNCHANGED <<pc, environ, global_e, mounted, raisedAtLoad, uncaught, routes, port, host,
                   pending, handled, thrown, lastReq>>

\* uvicorn.run returns once the lifespan is over; the module body ends
HostExit ==
    /\ host = "stopping"
    /\ ls = "closed"
    /\ host' = "exited"
    /\ pc' = "exited"
    /\ UNCHANGED <<environ, global_e, mounted, raisedAtLoad, uncaught, routes, log, port, ls,
                   pending, lsResult, handled, thrown, lastReq>>

Next ==
    \/ RegisterLoaded
    \/ RegisterFailed
    \/ DefineInlineRoutes
    \/ MainReadPort
    \/ MainLogAddress
    \/ MainRun
    \/ LifespanStartup
    \/ HandleRequest
    \/ TerminationSignal
    \/ LifespanResume
    \/ LifespanThrow
    \/ LifespanExcept
    \/ LifespanFinally
    \/ HostExit

Spec == Init /\ [][Next]_vars

\* ------------------------------------------- the lifecycle of section 3
\* the lifecycle state of the Application Instance, read off the lifespan
\* generator: before line 22, suspended at the yield, in the except/finally
\* lines, ended
Lifecycle ==
    CASE ls = "created" -> "not-started"
      [] ls = "suspended" -> "running"
      [] ls \in {"except", "finally"} -> "shutting-down"
      [] OTHER -> "stopped"

\* ---------------------------------------------------- helpers of the claims
Indices(line) == {i \in 1..Len(log) : log[i] = line}

IndicesOfText(text) == {i \in 1..Len(log) : log[i].t = text}

Before(I, J) == \A i \in I : \A j \in J : i < j

\* a PORT value that is the decimal text of an integer
IsIntegerText(s) ==
    \E k \in 0..1 :
        /\ Len(s) > k
        /\ k = 1 => s[1] = "-"
        /\ \A i \in (k + 1)..Len(s) : s[i] \in {"0", "9"}

RECURSIVE PlaceSum(_, _)
PlaceSum(s, i) ==
    IF i > Len(s) THEN 0
    ELSE (IF s[i] = "9" THEN 9 * 10 ^ (Len(s) - i) ELSE 0) + PlaceSum(s, i + 1)

ValueOfText(s) ==
    IF s[1] = "-" THEN 0 - PlaceSum(s, 2) ELSE PlaceSum(s, 1)

PortWasRead == pc \notin {"register", "inline", "main_port"}

Registered == pc # "register"

Answered(path) == lastReq.path = path

\* ------------------------------------------------------------- the claims

\* C1: once the router load has raised, every GET /api/test/ is answered 200
\* with exactly the keys error, details, traceback, where error is
\* "Failed to load TestController" and details is the message of the error
\* caught at load time (the message printed at registration).
C1_FallbackAnswers ==
    (mounted = <<"fallback">> /\ Answered("/api/test/")) =>
        /\ lastReq.resp.status = 200
        /\ DOMAIN lastReq.resp.body = {"error", "details", "traceback"}
        /\ lastReq.resp.body.error = "Failed to load TestController"
        /\ lastReq.resp.body.details = raisedAtLoad.msg
        /\ \E i \in IndicesOfText("Error importing TestController: ") :
               log[i].a = <<lastReq.resp.body.details>>

\* C2 as claimed: whatever router was mounted and whatever routes it defines,
\* GET / is answered 200 with the keys message, status, swagger, api and
\* status "ok", and GET /health is answered 200 with status "healthy" and
\* service "Backend API".
RootAnswer(resp) ==
    /\ resp.status = 200
    /\ DOMAIN resp.body = {"message", "status", "swagger", "api"}
    /\ resp.body.status = "ok"

HealthAnswer(resp) ==
    /\ resp.status = 200
    /\ DOMAIN resp.body = {"status", "service"}
    /\ resp.body.status = "healthy"
    /\ resp.body.service = "Backend API"

C2_InlineIndependent ==
    /\ Answered("/") => RootAnswer(lastReq.resp)
    /\ Answered("/health") => HealthAnswer(lastReq.resp)

\* the mounted router has a route of its own at this path
RouterDefines(path) ==
    \E i \in 1..Len(routes) :
        /\ routes[i].path = path
        /\ routes[i].endpoint \in {"external", "error_endpoint"}

\* C2 as amended: GET / and GET /health get the fixed answers of the inline
\* endpoints whether the external router was loaded or the fallback was
\* mounted, provided the mounted router has no route of its own at that path;
\* the fallback router never has one.
C2_InlineUnlessShadowed ==
    /\ (Answered("/") /\ ~RouterDefines("/")) => RootAnswer(lastReq.resp)
    /\ (Answered("/health") /\ ~RouterDefines("/health")) =>
           HealthAnswer(lastReq.resp)
    /\ mounted = <<"fallback">> =>
           ~RouterDefines("/") /\ ~RouterDefines("/health")

C2_Witness ==
    /\ mounted = <<"TestController">>
    /\ RouterDefines("/")
    /\ ~RouterDefines("/health")
    /\ Answered("/health")
    /\ HealthAnswer(lastReq.resp)

\* C3 as claimed: once line 89 has run, the process has not stopped and port
\* is the integer PORT holds, or 8000 when PORT is unset or is no integer.
C3_AlwaysBinds ==
    PortWasRead =>
        /\ uncaught = "None"
        /\ port = IF environ.present /\ IsIntegerText(environ.value)
                  THEN ValueOfText(environ.value)
                  ELSE DefaultPort

\* C3 as amended: with PORT unset the port handed to the server is 8000; with
\* PORT the text of an integer it is that integer; with PORT set to anything
\* else line 89 raises ValueError, and the process stops before the address
\* is logged and before the server is started.
C3_PortOrAbort ==
    PortWasRead =>
        IF ~environ.present
        THEN uncaught = "None" /\ port = DefaultPort
        ELSE IF IsIntegerText(environ.value)
        THEN uncaught = "None" /\ port = ValueOfText(environ.value)
        ELSE /\ uncaught = "ValueError"
             /\ pc = "aborted"
             /\ host = "none"
             /\ IndicesOfText("Starting server on 0.0.0.0:") = {}

C3_Witness ==
    /\ environ = [present |-> TRUE, value |-> <<"9", "0", "9", "0">>]
    /\ host = "serving"
    /\ port = 9090
    /\ AddressLine(9090) = LogLine("Starting server on 0.0.0.0:",
                                   <<"9", "0", "9", "0">>)
    /\ Indices(AddressLine(9090)) # {}

\* C4: a CancelledError thrown into the lifespan generator at its yield is
\* logged and leaves the context manager as the same CancelledError; the
\* generator never returns normally after it.
C4_CancellationPropagates ==
    thrown = "CancelledError" =>
        /\ lsResult # "returned"
        /\ ls = "closed" =>
               /\ lsResult = "CancelledError"
               /\ Indices(CancelLine) # {}

C4_Witness ==
    /\ thrown = "CancelledError"
    /\ ls = "closed"
    /\ host = "exited"

\* C5: the lifecycle only steps not-started -> running -> shutting-down ->
\* stopped, one state at a time, and the shutdown line is in the log when
\* stopped is reached.
LifecycleStep ==
    /\ \/ Lifecycle' = Lifecycle
       \/ Lifecycle = "not-started" /\ Lifecycle' = "running"
       \/ Lifecycle = "running" /\ Lifecycle' = "shutting-down"
       \/ Lifecycle = "shutting-down" /\ Lifecycle' = "stopped"
    /\ Lifecycle' = "stopped" => \E i \in 1..Len(log') : log'[i] = ShutdownLine

C5_LifecycleOrder == [][LifecycleStep]_vars

C5_Witness ==
    /\ Lifecycle = "stopped"
    /\ thrown = "RuntimeError"
    /\ pc = "exited"

\* C6: the load is attempted once; an error it raises is caught, the fallback
\* router is mounted and the bootstrap goes on; the fallback is mounted
\* exactly when the load raised, and one router is mounted either way.
C6_LoadFailureIsolated ==
    Registered =>
        /\ uncaught \in {"None", "ValueError"}
        /\ uncaught = "ValueError" => pc = "aborted" /\ PortWasRead
        /\ Len(mounted) = 1
        /\ mounted = <<"fallback">> <=> raisedAtLoad # NoError
        /\ mounted = <<"TestController">> <=> raisedAtLoad = NoError
        /\ mounted = <<"fallback">> =>
               \E i \in 1..Len(routes) : routes[i] = Route("/api/test/", "error_endpoint")

C6_Witness ==
    /\ raisedAtLoad.cls = "AttributeError"
    /\ mounted = <<"fallback">>
    /\ host = "serving"

\* C8: after a load failure the fallback endpoint's traceback is the trace
\* text of the load error, the text printed at registration.
C8_TracebackIsLoadTrace ==
    (mounted = <<"fallback">> /\ Answered("/api/test/")) =>
        /\ "traceback" \in DOMAIN lastReq.resp.body
        /\ lastReq.resp.body.traceback = format_exc(raisedAtLoad)
        /\ \E i \in IndicesOfText("Traceback: ") :
               log[i].a = lastReq.resp.body.traceback

\* C9: on every way out of the lifespan generator the shutdown line is
\* printed exactly once; the cancellation line is printed only when a
\* CancelledError was thrown, and before the shutdown line; a thrown
\* exception leaves the generator after the shutdown line.
C9_ShutdownLogged ==
    /\ Cardinality(Indices(ShutdownLine)) = IF ls = "closed" THEN 1 ELSE 0
    /\ Indices(CancelLine) # {} => thrown = "CancelledError"
    /\ Cardinality(Indices(CancelLine)) <= 1
    /\ Before(Indices(CancelLine), Indices(ShutdownLine))
    /\ ls = "closed" =>
           /\ thrown = "CancelledError" => Indices(CancelLine) # {}
           /\ lsResult = IF thrown = "None" THEN "returned" ELSE thrown
    /\ ls # "closed" => lsResult = "none"

C9_Witness ==
    /\ ls = "closed"
    /\ thrown = "RuntimeError"
    /\ lsResult = "RuntimeError"

\* C10: the registration (with its failure lines) is over before the address
\* line is printed, the address line is printed before the server is
\* started, and the startup line is printed before any request is answered.
C10_StartupOrder ==
    /\ IndicesOfText("Starting server on 0.0.0.0:") # {} =>
           /\ Registered /\ pc # "inline"
           /\ raisedAtLoad # NoError =>
                  /\ IndicesOfText("Error importing TestController: ") # {}
                  /\ IndicesOfText("Traceback: ") # {}
           /\ Before(IndicesOfText("Error importing TestController: ")
                         \cup IndicesOfText("Traceback: "),
                     IndicesOfText("Starting server on 0.0.0.0:"))
    /\ host # "none" => Indices(AddressLine(port)) # {}
    /\ Before(IndicesOfText("Starting server on 0.0.0.0:"),
              Indices(StartingLine))
    /\ handled > 0 =>
           /\ Indices(StartingLine) # {}
           /\ Indices(AddressLine(port)) # {}

C10_Witness ==
    /\ handled > 0
    /\ raisedAtLoad # NoError
    /\ Indices(StartingLine) # {}

====
